---- MODULE Spec2Model ----
(***************************************************************************)
(* beaver_rag: the per-user FAISS index cache (src/utils/index_manager.py) *)
(* as it is driven by concurrent requests of the Flask application         *)
(* (src/routes/rag_routes.py), and the retrieval pipeline                  *)
(* (src/langgraph/rag_graph.py) that calls it.                             *)
(*                                                                         *)
(* One IndexManager is shared by all request threads (rag_routes.py:8).    *)
(* A request thread runs its handler one shared-state access at a time;    *)
(* the code takes no lock, so the steps of two threads interleave freely.  *)
(***************************************************************************)
EXTENDS Integers, Sequences, FiniteSets, TLC

VARIABLES
    user_indices,   \* IndexManager.user_indices: dict user_id -> index
    user_docs,      \* IndexManager.user_docs: dict user_id -> document list
    files,          \* the indices directory: file path -> file contents
    inventories,    \* MongoDB collection "inventories", in native order
    bills,          \* MongoDB collection "bills", in native order
    th,             \* request threads: position and local variables
    workers,        \* the threads the server runs
    clients,        \* the user ids that requests carry
    contents,       \* the contents the TextGenerator may answer with
    shapes,         \* the sets of fields that request bodies carry
    faults,         \* the collaborators whose calls may fail
    nextBuild,      \* history: the number the next build will carry
    lastBuild,      \* history: per user, the build that completed last
    everHad,        \* history: the users that ever had a source record
    given,          \* the arguments of a function called on its own
    outcome         \* what that call ended with

vars == <<user_indices, user_docs, files, inventories, bills, th,
          workers, clients, contents, shapes, faults, nextBuild, lastBuild, everHad,
          given, outcome>>

\* what a run is set up with and no step changes
Scenario == <<workers, clients, contents, shapes, faults>>

\* a function called on its own, outside a request
Calls == <<given, outcome>>

NotCalled == [fn |-> "none"]

----------------------------------------------------------------------------
(* Bounds and the small input sets *)

MaxBuilds == 2

Threads == {"w1", "w2"}

Users == {"u1", "u2"}

Queries == {"what can I cook"}

\* the content of a chat message: a str, here the sequence of its
\* characters, or (AIMessage.content may be one) a list of parts
Str(chars) == [type |-> "str", chars |-> chars]

PartsList == [type |-> "list", chars |-> <<>>]

\* ["A"]
JsonArrayText == Str(<<"[", "\"", "A", "\"", "]">>)

\* [{"n":"A"}]
JsonObjectsText == Str(<<"[", "{", "\"", "n", "\"", ":", "\"", "A", "\"", "}", "]">>)

\* 1. A
\* - B
LinesText == Str(<<"1", ".", " ", "A", "\n", "-", " ", "B">>)

Responses == {JsonArrayText, JsonObjectsText, LinesText, PartsList}

\* the sets of fields a request body may carry
Shapes == SUBSET {"query", "userid"}

rice  == [user_id |-> "u1", item_name |-> "rice", quantity |-> 5,
          price |-> 120, month |-> "Jan"]
sugar == [user_id |-> "u1", item_name |-> "sugar", quantity |-> 2,
          price |-> 80, month |-> "Feb"]
tea   == [user_id |-> "u2", item_name |-> "tea", quantity |-> 1,
          price |-> 45, month |-> "Jan"]
\* a bill carries none of the inventory fields
bill  == [user_id |-> "u1", total |-> 200]

InventoryStates == {<<tea>>, <<rice, tea, sugar>>}

BillStates == {<<>>, <<bill>>}

----------------------------------------------------------------------------
(* Pure functions of the code *)

\* dict.get(key, default)
DictGet(item, key, default) ==
    IF key \in DOMAIN item THEN item[key] ELSE default

\* collection.find({"user_id": user_id}), as a list
Find(collection, user_id) ==
    SelectSeq(collection, LAMBDA r : r.user_id = user_id)

\* one index file for all users
SharedIndexPath(user_id) == "index.faiss"

_get_index_path(user_id) == "index_" \o user_id \o ".faiss"

_get_docs_path(user_id) == "docs_" \o user_id \o ".pkl"

FormatDoc(item) ==
    LET item_name == DictGet(item, "item_name", "Unknown Item")
        quantity  == DictGet(item, "quantity", 0)
        price     == DictGet(item, "price", 0)
        month     == DictGet(item, "month", "Unknown Month")
    IN  [text |-> "Item: " \o item_name \o ", Quantity: " \o ToString(quantity)
                  \o ", Price: " \o ToString(price) \o ", Month: " \o month,
         item_name |-> item_name,
         quantity  |-> quantity,
         price     |-> price,
         month     |-> month]

_format_inventory_docs(inventory_items) ==
    [i \in 1..Len(inventory_items) |-> FormatDoc(inventory_items[i])]

\* SentenceTransformer.encode on one text: a fixed function of the text
EmbedText(text) == <<Len(text) % 5, (Len(text) \div 5) % 5>>

\* SentenceTransformer.encode on a list of texts
Encode(texts) == [i \in 1..Len(texts) |-> EmbedText(texts[i])]

\* the value None of an index, and the empty document list
NoneIndex == [build |-> 0, vecs |-> <<>>]

NoDocs == [build |-> 0, list |-> <<>>]

\* d[key] = value on a dict
DictPut(d, key, value) ==
    [k \in DOMAIN d \cup {key} |-> IF k = key THEN value ELSE d[k]]

EmptyDict == [k \in {} |-> 0]

\* squared Euclidean distance, the metric of faiss.IndexFlatL2
Dist2(a, b) == (a[1] - b[1]) * (a[1] - b[1]) + (a[2] - b[2]) * (a[2] - b[2])

\* the positions 1..n of the stored vectors by non-decreasing distance to q,
\* the earlier position first among equals
Ranked(vecs, q) ==
    LET n == Len(vecs)
        Before(j, i) == \/ Dist2(vecs[j], q) < Dist2(vecs[i], q)
                        \/ Dist2(vecs[j], q) = Dist2(vecs[i], q) /\ j < i
        Rank(i) == Cardinality({j \in 1..n : Before(j, i)}) + 1
    IN  [r \in 1..n |-> CHOOSE i \in 1..n : Rank(i) = r]

\* index.search(q, k): k labels, the label -1 of faiss (no such vector)
\* written 0, the positions counted from 1
IndexSearch(index, q, k) ==
    [r \in 1..k |-> IF r <= Len(index.vecs) THEN Ranked(index.vecs, q)[r] ELSE 0]

Min(a, b) == IF a <= b THEN a ELSE b

\* the breadth retrieve_documents asks for
TopK == 10

----------------------------------------------------------------------------
(* json.loads, as llm_client.py uses it (lines 54, 85, 93), on a sequence  *)
(* of characters.  A decoded value is tagged with its Python type.         *)

Digits == <<"0", "1", "2", "3", "4", "5", "6", "7", "8", "9">>

IsDigit(c) == \E d \in 1..10 : Digits[d] = c

DigitValue(c) == (CHOOSE d \in 1..10 : Digits[d] = c) - 1

IsSpace(c) == c \in {" ", "\n"}

JsonFail == [ok |-> FALSE, v |-> [t |-> "none"], i |-> 0]

JsonOk(v, i) == [ok |-> TRUE, v |-> v, i |-> i]

PyStr(chars) == [t |-> "str", chars |-> chars]

PyInt(n) == [t |-> "int", n |-> n]

PyList(items) == [t |-> "list", items |-> items]

\* a dict keeps its keys in insertion order; a repeated key keeps its
\* first place and takes the later value
PyDict(keys, vals) == [t |-> "dict", keys |-> keys, vals |-> vals]

DictSet(keys, vals, k, v) ==
    IF \E n \in 1..Len(keys) : keys[n] = k
    THEN PyDict(keys, [n \in 1..Len(keys) |-> IF keys[n] = k THEN v ELSE vals[n]])
    ELSE PyDict(Append(keys, k), Append(vals, v))

RECURSIVE SkipWs(_, _)
\* the first position from i on that holds no whitespace
SkipWs(s, i) ==
    IF i <= Len(s) /\ IsSpace(s[i]) THEN SkipWs(s, i + 1) ELSE i

RECURSIVE DigitsEnd(_, _)
\* the first position from i on that holds no digit
DigitsEnd(s, i) ==
    IF i <= Len(s) /\ IsDigit(s[i]) THEN DigitsEnd(s, i + 1) ELSE i

RECURSIVE Number(_, _, _)
\* the value of the digits s[i..j-1]
Number(s, i, j) ==
    IF j <= i THEN 0 ELSE 10 * Number(s, i, j - 1) + DigitValue(s[j - 1])

\* an unsigned JSON integer at i: 0, or digits that do not begin with 0
ParseDigits(s, i) ==
    IF i > Len(s) \/ ~IsDigit(s[i]) THEN JsonFail
    ELSE IF s[i] = "0" THEN JsonOk(PyInt(0), i + 1)
    ELSE JsonOk(PyInt(Number(s, i, DigitsEnd(s, i))), DigitsEnd(s, i))

RECURSIVE QuoteFrom(_, _)
\* the position of the next quote from i on, 0 when there is none or a
\* control character (a raw newline) comes first
QuoteFrom(s, i) ==
    IF i > Len(s) \/ s[i] = "\n" THEN 0
    ELSE IF s[i] = "\"" THEN i
    ELSE QuoteFrom(s, i + 1)

\* a JSON string at i (s[i] is the opening quote)
ParseString(s, i) ==
    LET j == QuoteFrom(s, i + 1)
    IN  IF j = 0 THEN JsonFail
        ELSE JsonOk(PyStr(SubSeq(s, i + 1, j - 1)), j + 1)

RECURSIVE ParseValue(_, _)
RECURSIVE ParseElems(_, _, _)
RECURSIVE ParseMembers(_, _, _)

\* a JSON value at i
ParseValue(s, i) ==
    IF i > Len(s) THEN JsonFail
    ELSE IF s[i] = "\"" THEN ParseString(s, i)
    ELSE IF s[i] = "[" THEN
        LET k == SkipWs(s, i + 1)
        IN  IF k <= Len(s) /\ s[k] = "]" THEN JsonOk(PyList(<<>>), k + 1)
            ELSE ParseElems(s, k, <<>>)
    ELSE IF s[i] = "{" THEN
        LET k == SkipWs(s, i + 1)
        IN  IF k <= Len(s) /\ s[k] = "}" THEN JsonOk(PyDict(<<>>, <<>>), k + 1)
            ELSE ParseMembers(s, k, PyDict(<<>>, <<>>))
    ELSE IF s[i] = "-" THEN
        LET r == ParseDigits(s, i + 1)
        IN  IF r.ok THEN JsonOk(PyInt(0 - r.v.n), r.i) ELSE JsonFail
    ELSE ParseDigits(s, i)

\* the elements of an array from i on, after the elements acc
ParseElems(s, i, acc) ==
    LET r == ParseValue(s, i)
        k == SkipWs(s, r.i)
    IN  IF ~r.ok \/ k > Len(s) THEN JsonFail
        ELSE IF s[k] = "," THEN ParseElems(s, SkipWs(s, k + 1), Append(acc, r.v))
        ELSE IF s[k] = "]" THEN JsonOk(PyList(Append(acc, r.v)), k + 1)
        ELSE JsonFail

\* the members of an object from i on, after the members of d
ParseMembers(s, i, d) ==
    IF i > Len(s) \/ s[i] # "\"" THEN JsonFail
    ELSE
        LET key == ParseString(s, i)
            c   == SkipWs(s, key.i)
        IN  IF ~key.ok \/ c > Len(s) \/ s[c] # ":" THEN JsonFail
            ELSE
                LET r  == ParseValue(s, SkipWs(s, c + 1))
                    k  == SkipWs(s, r.i)
                    d1 == DictSet(d.keys, d.vals, key.v.chars, r.v)
                IN  IF ~r.ok \/ k > Len(s) THEN JsonFail
                    ELSE IF s[k] = "," THEN ParseMembers(s, SkipWs(s, k + 1), d1)
                    ELSE IF s[k] = "}" THEN JsonOk(d1, k + 1)
                    ELSE JsonFail

\* json.loads(s): the value, or JSONDecodeError (ok = FALSE)
JsonLoads(s) ==
    LET r == ParseValue(s, SkipWs(s, 1))
    IN  IF r.ok /\ SkipWs(s, r.i) > Len(s) THEN r ELSE JsonFail

----------------------------------------------------------------------------
(* LLMClient.parse_recipe_list and parse_structured_suggestions            *)

\* a str literal of the code, kept whole
Lit(string) == PyStr(<<string>>)

\* the positions of s that hold c
Positions(s, c) == {i \in 1..Len(s) : s[i] = c}

MinOf(S) == CHOOSE x \in S : \A y \in S : x <= y

MaxOf(S) == CHOOSE x \in S : \A y \in S : y <= x

RECURSIVE BackWs(_, _)
\* the last position up to i that holds no whitespace (0 when none)
BackWs(s, i) ==
    IF i >= 1 /\ IsSpace(s[i]) THEN BackWs(s, i - 1) ELSE i

\* s holds the characters lit from i on
HasAt(s, i, lit) ==
    /\ i >= 1
    /\ i + Len(lit) - 1 <= Len(s)
    /\ \A n \in 1..Len(lit) : s[i + n - 1] = lit[n]

NoMatch == [found |-> FALSE, from |-> 0, to |-> 0]

\* re.search(r'\[.*\]', s, re.DOTALL): from the first [ to the last ]
SearchArray(s) ==
    LET opens  == Positions(s, "[")
        closes == Positions(s, "]")
    IN  IF opens # {} /\ closes # {} /\ MinOf(opens) < MaxOf(closes)
        THEN [found |-> TRUE, from |-> MinOf(opens), to |-> MaxOf(closes)]
        ELSE NoMatch

\* re.search(r'\[\s*{.*}\s*\]', s, re.DOTALL): from the first [ that a {
\* follows to the last ] that a } precedes, whitespace between them aside
SearchObjectArray(s) ==
    LET Ends(a) == {j \in Positions(s, "]") :
                       /\ BackWs(s, j - 1) > a
                       /\ s[BackWs(s, j - 1)] = "}"}
        Starts  == {i \in Positions(s, "[") :
                       /\ SkipWs(s, i + 1) <= Len(s)
                       /\ s[SkipWs(s, i + 1)] = "{"
                       /\ Ends(SkipWs(s, i + 1)) # {}}
    IN  IF Starts = {} THEN NoMatch
        ELSE [found |-> TRUE, from |-> MinOf(Starts),
              to |-> MaxOf(Ends(SkipWs(s, MinOf(Starts) + 1)))]

SuggestionsKey ==
    <<"\"", "s", "u", "g", "g", "e", "s", "t", "i", "o", "n", "s", "\"">>

\* re.search(r'{\s*"suggestions"\s*:\s*\[.*\]\s*}', s, re.DOTALL)
SearchSuggestionsObject(s) ==
    LET ArrayAt(i) ==
            LET p == SkipWs(s, i + 1)
                q == SkipWs(s, p + Len(SuggestionsKey))
                r == SkipWs(s, q + 1)
            IN  IF HasAt(s, p, SuggestionsKey) /\ q <= Len(s) /\ s[q] = ":"
                   /\ r <= Len(s) /\ s[r] = "["
                THEN r ELSE 0
        Ends(r) == {j \in Positions(s, "}") :
                       /\ BackWs(s, j - 1) > r
                       /\ s[BackWs(s, j - 1)] = "]"}
        Starts  == {i \in Positions(s, "{") :
                       ArrayAt(i) # 0 /\ Ends(ArrayAt(i)) # {}}
    IN  IF Starts = {} THEN NoMatch
        ELSE [found |-> TRUE, from |-> MinOf(Starts),
              to |-> MaxOf(Ends(ArrayAt(MinOf(Starts))))]

RECURSIVE Split(_, _)
\* s.split(sep)
Split(s, sep) ==
    IF Positions(s, sep) = {} THEN <<s>>
    ELSE LET i == MinOf(Positions(s, sep))
         IN  <<SubSeq(s, 1, i - 1)>> \o Split(SubSeq(s, i + 1, Len(s)), sep)

\* s.strip()
Strip(s) == SubSeq(s, SkipWs(s, 1), BackWs(s, Len(s)))

\* re.sub(r'^\s*\d+\.\s*|^\s*-\s*|^\s*\*\s*', '', line).strip()
CleanLine(line) ==
    LET a == SkipWs(line, 1)
        e == DigitsEnd(line, a)
    IN  IF e > a /\ e <= Len(line) /\ line[e] = "."
        THEN Strip(SubSeq(line, e + 1, Len(line)))
        ELSE IF a <= Len(line) /\ line[a] \in {"-", "*"}
        THEN Strip(SubSeq(line, a + 1, Len(line)))
        ELSE Strip(line)

\* what a call ends with: a value returned, or an exception raised
Returned(value) == [raised |-> "none", value |-> value]

Raised(e) == [raised |-> e, value |-> PyList(<<>>)]

\* parse_recipe_list, lines 48-68; re.search raises TypeError on a
\* response that is no str
parse_recipe_list(response) ==
    IF response.type # "str" THEN Raised("TypeError")
    ELSE
        LET s          == response.chars
            json_match == SearchArray(s)
            recipes    == JsonLoads(SubSeq(s, json_match.from, json_match.to))
            lines      == Split(s, "\n")
            cleaned    == [n \in 1..Len(lines) |-> CleanLine(lines[n])]
            kept       == SelectSeq(cleaned, LAMBDA l : l # <<>>)
        IN  IF json_match.found /\ recipes.ok /\ recipes.v.t = "list"
            THEN Returned(recipes.v)
            ELSE Returned(PyList([n \in 1..Len(kept) |-> PyStr(kept[n])]))

ErrorRecord(message) == PyDict(<<<<"error">>>>, <<Lit(message)>>)

\* parse_structured_suggestions, lines 80-101
parse_structured_suggestions(response) ==
    IF response.type # "str" THEN Raised("TypeError")
    ELSE
        LET s              == response.chars
            json_match     == SearchObjectArray(s)
            suggestions    == JsonLoads(SubSeq(s, json_match.from, json_match.to))
            json_obj_match == SearchSuggestionsObject(s)
            parsed         == JsonLoads(SubSeq(s, json_obj_match.from,
                                               json_obj_match.to))
            failed         == Returned(PyList(<<ErrorRecord(
                                "Failed to parse suggestions from LLM response")>>))
            key            == <<"s", "u", "g", "g", "e", "s", "t", "i", "o", "n", "s">>
            where          == CHOOSE n \in 1..Len(parsed.v.keys) :
                                 parsed.v.keys[n] = key
        IN  IF json_match.found /\ ~suggestions.ok THEN failed
            ELSE IF json_match.found /\ suggestions.v.t = "list"
            THEN Returned(suggestions.v)
            ELSE IF json_obj_match.found /\ ~parsed.ok THEN failed
            ELSE IF /\ json_obj_match.found /\ parsed.v.t = "dict"
                    /\ \E n \in 1..Len(parsed.v.keys) : parsed.v.keys[n] = key
            THEN Returned(parsed.v.vals[where])
            ELSE Returned(PyList(<<ErrorRecord(
                   "Failed to extract structured recipe suggestions from response")>>))

----------------------------------------------------------------------------
(* Request threads *)

Collaborators == {"disk", "DataSource", "EmbeddingProvider"}

\* the collaborators whose calls raise when they fail
Failing == {"DataSource", "EmbeddingProvider", "TextGenerator"}

\* whether a call of collaborator c goes well: either, when c may fail
Outcomes(c) == IF c \in faults THEN BOOLEAN ELSE {TRUE}

IdleThread ==
    [pc |-> "idle", op |-> "none", user_id |-> "none", query |-> "none",
     force_refresh |-> FALSE,
     index |-> NoneIndex, docs |-> NoDocs,      \* locals of get_or_create_index
     items |-> <<>>,                            \* the raw records fetched
     results |-> <<>>, context |-> "", response |-> Str(<<>>),
     reply |-> [code |-> 0],
     \* the request and the rest of the RAGState
     endpoint |-> "none", data |-> EmptyDict, output_type |-> "none",
     system_prompt |-> "", prompt_template |-> <<>>,
     recipe_list |-> PyList(<<>>), structured_suggestions |-> PyList(<<>>),
     exc |-> "none",                            \* the exception that ended the call
     \* history of the call in progress
     route |-> "none", called |-> {}, build |-> 0,
     dsFailed |-> FALSE, embFailed |-> FALSE, zero |-> FALSE,
     refreshed |-> FALSE,
     had |-> 0,            \* the user's last build when the call came in
     invoked |-> <<>>,     \* the calls the handler delegated to
     entered |-> <<>>,     \* the pipeline states entered, in order
     llm_calls |-> 0,      \* the calls of the TextGenerator
     generated |-> Str(<<>>),  \* what the TextGenerator returned
     final |-> [output_type |-> "none"]]  \* the state the graph ended with

\* the program counters inside the build section of get_or_create_index
\* (lines 110-146)
BuildPcs == {"b_fetch_inv", "b_fetch_bills", "b_embed", "b_write_index",
             "b_write_docs", "b_store_index", "b_store_docs"}

\* the collections inv and bil hold no record of the user
NoRecords(inv, bil, user_id) ==
    /\ \A i \in 1..Len(inv) : inv[i].user_id # user_id
    /\ \A i \in 1..Len(bil) : bil[i].user_id # user_id

\* what the caller of a raising get_or_create_index / search makes of it:
\* refresh_index catches and reports (lines 195-200); rag_endpoint answers
\* 500 (rag_routes.py lines 39-40)
\* the handler's answer goes out; the locals of the calls it made are gone
Return(t, reply) ==
    [t EXCEPT !.pc = "returned", !.reply = reply,
              !.index = NoneIndex, !.docs = NoDocs, !.results = <<>>,
              !.context = "", !.query = "none", !.response = Str(<<>>),
              !.recipe_list = PyList(<<>>),
              !.structured_suggestions = PyList(<<>>),
              !.route = "none", !.called = {}, !.had = 0]

\* every handler answering an exception with status 500
RaiseStatus(t, e) ==
    Return([t EXCEPT !.exc = e], [code |-> 500, body |-> [error |-> e]])

\* the call ends with exception e: refresh_index (index_manager.py lines
\* 198-200) and the handlers' except branches
Raise(t, e) ==
    Return([t EXCEPT !.exc = e],
           IF t.op = "refresh"
           THEN [code |-> 200,
                 body |-> [status |-> "error", document_count |-> 0,
                           message |-> "Failed to refresh index: " \o e]]
           ELSE IF t.endpoint = "/itemrag"
           \* rag_routes.py lines 67-68
           THEN [code |-> 200,
                 body |-> [answer |-> <<"Error generating recipes: " \o e>>]]
           ELSE IF t.endpoint = "/new_item_recipe_suggestions_query"
           \* rag_routes.py lines 95-96
           THEN [code |-> 200, body |-> [suggestions |-> <<[error |-> e]>>]]
           ELSE [code |-> 500, body |-> [error |-> e]])

Step(w, t) == th' = [th EXCEPT ![w] = t]

----------------------------------------------------------------------------
(* The state after construction: IndexManager.__init__ on a fresh indices  *)
(* directory, the collections in any of their states                       *)

InitState ==
    /\ user_indices = EmptyDict
    /\ user_docs = EmptyDict
    /\ files = EmptyDict
    /\ inventories \in InventoryStates
    /\ bills \in BillStates
    /\ th = [w \in Threads |-> IdleThread]
    /\ nextBuild = 1
    /\ lastBuild = [u \in Users |-> [build |-> 0, count |-> 0]]
    /\ everHad = {u \in Users : ~NoRecords(inventories, bills, u)}
    /\ outcome = NotCalled

\* two request threads serving one user
Init ==
    /\ InitState
    /\ given = NotCalled
    /\ workers = Threads
    /\ clients = {"u1"}
    /\ contents = {JsonArrayText}
    /\ shapes = {{"query", "userid"}}
    /\ faults = Failing

Shared == <<user_indices, user_docs, files, Scenario, Calls>>

Source == <<inventories, bills, everHad>>

----------------------------------------------------------------------------
(* Requests: rag_routes.py *)

\* a refresh_index of the user has returned success over zero source records
\* (the DataSource having answered), and the user has had none since
RefreshedEmpty(user_id) ==
    \E v \in Threads :
       /\ th[v].pc = "returned" /\ th[v].op = "refresh"
       /\ th[v].user_id = user_id /\ th[v].zero /\ ~th[v].dsFailed
       /\ th[v].reply.body.status = "success"

\* request.json of a request that carries the fields of shape
Body(shape, query, user_id) ==
    [k \in shape |-> IF k = "query" THEN query ELSE user_id]

\* a test that forgets all keys but 'query'
MissingQuery(data, required) ==
    data = EmptyDict \/ \E k \in required \cap {"query"} : k \notin DOMAIN data

\* not data or 'query' not in data or 'userid' not in data (lines 22, 50,
\* 78); not data or 'userid' not in data (line 106)
Missing(data, required) ==
    data = EmptyDict \/ \E k \in required : k \notin DOMAIN data

\* SystemPrompts, by name; PromptTemplates, as the text before {context},
\* between {context} and {query}, and after {query}
GENERAL_QUERY_TEMPLATE ==
    <<"\n    User inventory context:\n    ",
      "\n    \n    User query: ",
      "\n    ">>

RECIPE_QUERY_TEMPLATE ==
    <<"\n    User's available ingredients from inventory:\n    ",
      "\n    \n    Generate Sri Lankan lunch recipe suggestions based on these ingredients.\n    The user is looking for: ",
      "\n    \n    Remember to return only a JSON array of recipe names.\n    ">>

STRUCTURED_RECIPE_TEMPLATE ==
    <<"\n    User's available ingredients from inventory:\n    ",
      "\n    \n    Generate structured Sri Lankan lunch recipe suggestions based on these ingredients.\n    The user is looking for: ",
      "\n    \n    Remember to return only a JSON array of structured recipe objects containing recipe_name, additions, and base_ingredients.\n    ">>

\* prompt_template.format(context=..., query=...)
FormatPrompt(prompt_template, context, query) ==
    prompt_template[1] \o context \o prompt_template[2] \o query
        \o prompt_template[3]

\* get_initial_state, rag_graph.py lines 97-122: the fields of the RAGState
\* that the thread record keeps under the same names
get_initial_state(query, user_id, output_type) ==
    [query |-> query, user_id |-> user_id,
     retrieved_docs |-> <<>>, context |-> "",
     system_prompt |-> IF output_type = "recipe_list"
                       THEN "RECIPE_LIST_SYSTEM_PROMPT"
                       ELSE IF output_type = "structured"
                       THEN "STRUCTURED_RECIPE_SYSTEM_PROMPT"
                       ELSE "GENERAL_SYSTEM_PROMPT",
     prompt_template |-> IF output_type = "recipe_list"
                         THEN RECIPE_QUERY_TEMPLATE
                         ELSE IF output_type = "structured"
                         THEN STRUCTURED_RECIPE_TEMPLATE
                         ELSE GENERAL_QUERY_TEMPLATE,
     response |-> Str(<<>>), recipe_list |-> PyList(<<>>),
     structured_suggestions |-> PyList(<<>>),
     output_type |-> output_type]

\* every endpoint passing "text"
TextType(endpoint) == "text"

\* the output_type each query endpoint passes to invoke_rag (lines 32, 60,
\* 88)
OutputTypeOf(endpoint) ==
    IF endpoint = "/itemrag" THEN "recipe_list"
    ELSE IF endpoint = "/new_item_recipe_suggestions_query" THEN "structured"
    ELSE "text"

\* a pipeline state is entered
Enter(t, name) == [t EXCEPT !.entered = Append(@, name)]

\* one of the three query endpoints takes a request: 400 when a field is
\* missing, else invoke_rag(query, user_id, output_type), whose first node,
\* retrieve_documents, calls search, which calls get_or_create_index(user_id)
QueryRequest(w, endpoint) ==
    /\ w \in workers
    /\ th[w].pc = "idle"
    /\ \E shape \in shapes, u \in clients, q \in Queries :
         LET data  == Body(shape, q, u)
             t     == [IdleThread EXCEPT !.op = "query", !.endpoint = endpoint,
                                         !.data = data]
             state == get_initial_state(data["query"], data["userid"],
                                        OutputTypeOf(endpoint))
         IN  IF Missing(data, {"query", "userid"})
             THEN Step(w, Return(t, [code |-> 400,
                                     body |-> [error |-> "Missing required parameters"]]))
             \* data['query'], data['userid'] raise KeyError on a missing key
             ELSE IF {"query", "userid"} \ DOMAIN data # {}
             THEN Step(w, Raise(t, "KeyError"))
             ELSE Step(w, Enter(
                    [t EXCEPT !.pc = "g_check",
                              !.user_id = state.user_id, !.query = state.query,
                              !.output_type = state.output_type,
                              !.system_prompt = state.system_prompt,
                              !.prompt_template = state.prompt_template,
                              !.invoked = <<[fn |-> "invoke_rag",
                                             query |-> data["query"],
                                             user_id |-> data["userid"],
                                             output_type |-> OutputTypeOf(endpoint)]>>,
                              !.zero = NoRecords(inventories, bills, state.user_id),
                              !.refreshed = RefreshedEmpty(state.user_id),
                              !.had = lastBuild[state.user_id].build],
                    "RETRIEVE"))
    /\ UNCHANGED <<Shared, Source, nextBuild, lastBuild>>

\* POST /rag
RagRequest(w) == QueryRequest(w, "/rag")

\* POST /itemrag
ItemRagRequest(w) == QueryRequest(w, "/itemrag")

\* POST /new_item_recipe_suggestions_query
StructuredRequest(w) == QueryRequest(w, "/new_item_recipe_suggestions_query")

\* POST /refresh: 400 when userid is missing, else refresh_index(user_id),
\* which calls get_or_create_index(user_id, force_refresh=True)
RefreshRequest(w) ==
    /\ w \in workers
    /\ th[w].pc = "idle"
    /\ \E shape \in shapes, u \in clients, q \in Queries :
         LET data == Body(shape, q, u)
             t    == [IdleThread EXCEPT !.op = "refresh", !.endpoint = "/refresh",
                                        !.data = data]
         IN  IF Missing(data, {"userid"})
             THEN Step(w, Return(t, [code |-> 400,
                                     body |-> [error |-> "Missing userid parameter"]]))
             \* data['userid'] raises KeyError on a missing key: lines 115-120
             ELSE IF "userid" \notin DOMAIN data
             THEN Step(w, Return([t EXCEPT !.exc = "KeyError"],
                                 [code |-> 500,
                                  body |-> [status |-> "error",
                                            message |-> "KeyError",
                                            document_count |-> 0]]))
             ELSE Step(w, [t EXCEPT !.pc = "g_check",
                                    !.user_id = data["userid"],
                                    !.force_refresh = TRUE,
                                    !.invoked = <<[fn |-> "refresh_index",
                                                   user_id |-> data["userid"]]>>,
                                    !.zero = NoRecords(inventories, bills,
                                                       data["userid"])])
    /\ UNCHANGED <<Shared, Source, nextBuild, lastBuild>>

----------------------------------------------------------------------------
(* get_or_create_index, one shared access per step *)

\* a test that never finds the user in the cache
CacheMiss(user_id, force_refresh) == FALSE

\* line 85: user_id in self.user_indices and not force_refresh
CacheHit(user_id, force_refresh) ==
    user_id \in DOMAIN user_indices /\ ~force_refresh

\* a refresh that first drops the user's cached index
CheckCacheEvicting(w) ==
    LET t == th[w] IN
    /\ t.pc = "g_check"
    /\ IF t.force_refresh /\ t.user_id \in DOMAIN user_indices
       THEN /\ Step(w, [t EXCEPT !.pc = "b_fetch_inv", !.route = "build"])
            /\ user_indices' = [u \in DOMAIN user_indices \ {t.user_id} |->
                                   user_indices[u]]
            /\ UNCHANGED <<user_docs, files, Scenario, Calls>>
       ELSE /\ IF CacheHit(t.user_id, t.force_refresh)
               THEN Step(w, [t EXCEPT !.pc = "g_read_docs", !.route = "cache",
                                      !.index = user_indices[t.user_id]])
               ELSE IF t.force_refresh
               THEN Step(w, [t EXCEPT !.pc = "b_fetch_inv", !.route = "build"])
               ELSE Step(w, [t EXCEPT !.pc = "g_exists_index"])
            /\ UNCHANGED Shared
    /\ UNCHANGED <<Source, nextBuild, lastBuild>>

\* lines 85-87: the test, and on a hit the read of self.user_indices[user_id];
\* line 95 with force_refresh set falls through to the build
CheckCache(w) ==
    LET t == th[w] IN
    /\ t.pc = "g_check"
    /\ IF CacheHit(t.user_id, t.force_refresh)
       THEN Step(w, [t EXCEPT !.pc = "g_read_docs", !.route = "cache",
                              !.index = user_indices[t.user_id]])
       ELSE IF t.force_refresh
       THEN Step(w, [t EXCEPT !.pc = "b_fetch_inv", !.route = "build"])
       ELSE Step(w, [t EXCEPT !.pc = "g_exists_index"])
    /\ UNCHANGED <<Shared, Source, nextBuild, lastBuild>>

\* line 88: self.user_docs[user_id], a KeyError when the key is not there
ReadCachedDocs(w) ==
    LET t == th[w] IN
    /\ t.pc = "g_read_docs"
    /\ IF t.user_id \in DOMAIN user_docs
       THEN Step(w, [t EXCEPT !.pc = "g_ret", !.docs = user_docs[t.user_id]])
       ELSE Step(w, Raise(t, "KeyError"))
    /\ UNCHANGED <<Shared, Source, nextBuild, lastBuild>>

\* line 95, first operand: os.path.exists(index_path)
ExistsIndex(w) ==
    LET t == th[w] IN
    /\ t.pc = "g_exists_index"
    /\ IF _get_index_path(t.user_id) \in DOMAIN files
       THEN Step(w, [t EXCEPT !.pc = "g_exists_docs"])
       ELSE Step(w, [t EXCEPT !.pc = "b_fetch_inv", !.route = "build"])
    /\ UNCHANGED <<Shared, Source, nextBuild, lastBuild>>

\* line 95, second operand: os.path.exists(docs_path)
ExistsDocs(w) ==
    LET t == th[w] IN
    /\ t.pc = "g_exists_docs"
    /\ IF _get_docs_path(t.user_id) \in DOMAIN files
       THEN Step(w, [t EXCEPT !.pc = "l_read_index", !.route = "disk"])
       ELSE Step(w, [t EXCEPT !.pc = "b_fetch_inv", !.route = "build"])
    /\ UNCHANGED <<Shared, Source, nextBuild, lastBuild>>

\* line 97: index = faiss.read_index(index_path)
LoadIndex(w) ==
    LET t == th[w] IN
    /\ t.pc = "l_read_index"
    /\ Step(w, [t EXCEPT !.pc = "l_read_docs",
                         !.called = @ \cup {"disk"},
                         !.index = files[_get_index_path(t.user_id)]])
    /\ UNCHANGED <<Shared, Source, nextBuild, lastBuild>>

\* lines 98-99: docs = pickle.load(f)
LoadDocs(w) ==
    LET t == th[w] IN
    /\ t.pc = "l_read_docs"
    /\ Step(w, [t EXCEPT !.pc = "l_store_index",
                         !.called = @ \cup {"disk"},
                         !.docs = files[_get_docs_path(t.user_id)]])
    /\ UNCHANGED <<Shared, Source, nextBuild, lastBuild>>

\* line 102: self.user_indices[user_id] = index
LoadStoreIndex(w) ==
    LET t == th[w] IN
    /\ t.pc = "l_store_index"
    /\ user_indices' = DictPut(user_indices, t.user_id, t.index)
    /\ Step(w, [t EXCEPT !.pc = "l_store_docs"])
    /\ UNCHANGED <<user_docs, files, Scenario, Calls, Source, nextBuild, lastBuild>>

\* lines 103-108: self.user_docs[user_id] = docs, and the return
LoadStoreDocs(w) ==
    LET t == th[w] IN
    /\ t.pc = "l_store_docs"
    /\ user_docs' = DictPut(user_docs, t.user_id, t.docs)
    /\ Step(w, [t EXCEPT !.pc = "g_ret"])
    /\ UNCHANGED <<user_indices, files, Scenario, Calls, Source, nextBuild, lastBuild>>

----------------------------------------------------------------------------
(* The build section of get_or_create_index, lines 110-146 *)

\* MongoDB.get_user_inventory / get_user_bills: the matching records, or []
\* when the collection raises (the except branch)
FetchRecords(collection, user_id, ok) ==
    IF ok THEN Find(collection, user_id) ELSE <<>>

\* line 111: user_inventory = self.mongodb.get_user_inventory(user_id)
FetchInventory(w) ==
    LET t == th[w] IN
    /\ t.pc = "b_fetch_inv"
    /\ nextBuild <= MaxBuilds
    /\ \E ok \in Outcomes("DataSource") :
         Step(w, [t EXCEPT !.pc = "b_fetch_bills",
                           !.build = nextBuild,
                           !.called = @ \cup {"DataSource"},
                           !.dsFailed = ~ok,
                           !.items = FetchRecords(inventories, t.user_id, ok)])
    /\ nextBuild' = nextBuild + 1
    /\ UNCHANGED <<Shared, Source, lastBuild>>

\* lines 112-123: user_bills, all_items = user_inventory + user_bills, docs,
\* and the early return on no documents
FetchBills(w) ==
    LET t == th[w] IN
    /\ t.pc = "b_fetch_bills"
    /\ \E ok \in Outcomes("DataSource") :
         LET all_items == t.items \o FetchRecords(bills, t.user_id, ok)
             docs      == _format_inventory_docs(all_items)
             t1        == [t EXCEPT !.items = all_items,
                                    !.dsFailed = @ \/ ~ok]
         IN  IF docs = <<>>
             THEN /\ Step(w, [t1 EXCEPT !.pc = "g_ret", !.index = NoneIndex,
                                        !.docs = NoDocs])
                  /\ lastBuild' = [lastBuild EXCEPT ![t.user_id] =
                                       [build |-> t.build, count |-> 0]]
             ELSE /\ Step(w, [t1 EXCEPT !.pc = "b_embed",
                                        !.docs = [build |-> t.build, list |-> docs]])
                  /\ UNCHANGED lastBuild
    /\ UNCHANGED <<Shared, Source, nextBuild>>

\* lines 126-132: texts, embeddings = self.embedding_model.encode(texts),
\* index = faiss.IndexFlatL2(dimension), index.add(embeddings)
Embed(w) ==
    LET t == th[w] IN
    /\ t.pc = "b_embed"
    /\ \E ok \in Outcomes("EmbeddingProvider") :
         IF ok
         THEN LET texts == [i \in 1..Len(t.docs.list) |-> t.docs.list[i].text]
              IN  Step(w, [t EXCEPT !.pc = "b_write_index",
                                    !.called = @ \cup {"EmbeddingProvider"},
                                    !.index = [build |-> t.build,
                                               vecs |-> Encode(texts)]])
         ELSE Step(w, Raise([t EXCEPT !.called = @ \cup {"EmbeddingProvider"},
                                      !.embFailed = TRUE],
                            "EmbeddingError"))
    /\ UNCHANGED <<Shared, Source, nextBuild, lastBuild>>

\* line 135: faiss.write_index(index, index_path)
WriteIndex(w) ==
    LET t == th[w] IN
    /\ t.pc = "b_write_index"
    /\ files' = DictPut(files, _get_index_path(t.user_id), t.index)
    /\ Step(w, [t EXCEPT !.pc = "b_write_docs"])
    /\ UNCHANGED <<user_indices, user_docs, Scenario, Calls, Source, nextBuild, lastBuild>>

\* lines 136-137: pickle.dump(docs, f)
WriteDocs(w) ==
    LET t == th[w] IN
    /\ t.pc = "b_write_docs"
    /\ files' = DictPut(files, _get_docs_path(t.user_id), t.docs)
    /\ Step(w, [t EXCEPT !.pc = "b_store_index"])
    /\ UNCHANGED <<user_indices, user_docs, Scenario, Calls, Source, nextBuild, lastBuild>>

\* line 140: self.user_indices[user_id] = index
BuildStoreIndex(w) ==
    LET t == th[w] IN
    /\ t.pc = "b_store_index"
    /\ user_indices' = DictPut(user_indices, t.user_id, t.index)
    /\ Step(w, [t EXCEPT !.pc = "b_store_docs"])
    /\ UNCHANGED <<user_docs, files, Scenario, Calls, Source, nextBuild, lastBuild>>

\* lines 141-146: self.user_docs[user_id] = docs, and the return
BuildStoreDocs(w) ==
    LET t == th[w] IN
    /\ t.pc = "b_store_docs"
    /\ user_docs' = DictPut(user_docs, t.user_id, t.docs)
    /\ Step(w, [t EXCEPT !.pc = "g_ret"])
    /\ lastBuild' = [lastBuild EXCEPT ![t.user_id] =
                         [build |-> t.build, count |-> Len(t.docs.list)]]
    /\ UNCHANGED <<user_indices, files, Scenario, Calls, Source, nextBuild>>

----------------------------------------------------------------------------
(* The callers of get_or_create_index *)

\* refresh_index, lines 189-194
RefreshReturn(w) ==
    LET t == th[w] IN
    /\ t.pc = "g_ret"
    /\ t.op = "refresh"
    /\ Step(w, Return(t, [code |-> 200,
                           body |-> [status |-> "success",
                                     message |-> "Index refreshed successfully",
                                     document_count |-> Len(t.docs.list)]]))
    /\ UNCHANGED <<Shared, Source, nextBuild, lastBuild>>

RECURSIVE JoinLines(_)
\* "\n".join(lines)
JoinLines(lines) ==
    IF lines = <<>> THEN ""
    ELSE IF Len(lines) = 1 THEN lines[1]
    ELSE lines[1] \o "\n" \o JoinLines(Tail(lines))

\* a context of the closest document only
ContextOfFirst(docs) ==
    IF docs = <<>> THEN "No inventory data found." ELSE "- " \o docs[1].text

\* retrieve_documents, lines 36-45: the context of the documents found
Context(docs) ==
    LET context == JoinLines([i \in 1..Len(docs) |-> "- " \o docs[i].text])
    IN  IF context # "" THEN context ELSE "No inventory data found."

\* docs[idx] for the labels of index.search: Python reads the label -1 as
\* the last element and raises IndexError past the end
Picked(list, hits) ==
    [r \in 1..Len(hits) |-> IF hits[r] = 0 THEN list[Len(list)] ELSE list[hits[r]]]

\* retrieve_documents has the documents and the context; the locals of
\* search and of get_or_create_index are gone
Retrieved(t, docs) ==
    Enter([t EXCEPT !.pc = "p_generate", !.results = docs,
                    !.context = Context(docs),
                    !.index = NoneIndex, !.docs = NoDocs, !.items = <<>>,
                    !.route = "none", !.called = {}, !.build = 0, !.had = 0],
          "GENERATE")

\* search, lines 162-176, on the value get_or_create_index returned, and
\* retrieve_documents around it
Search(w) ==
    LET t == th[w] IN
    /\ t.pc = "g_ret"
    /\ t.op = "query"
    /\ IF t.index = NoneIndex \/ t.docs.list = <<>>
       THEN Step(w, Retrieved(t, <<>>))
       ELSE \E ok \in Outcomes("EmbeddingProvider") :
              LET hits == IndexSearch(t.index, EmbedText(t.query),
                                      Min(TopK, Len(t.docs.list)))
              IN  IF ~ok
                  THEN Step(w, Raise(t, "EmbeddingError"))
                  ELSE IF \E r \in 1..Len(hits) : hits[r] > Len(t.docs.list)
                  THEN Step(w, Raise(t, "IndexError"))
                  ELSE Step(w, Retrieved(t, Picked(t.docs.list, hits)))
    /\ UNCHANGED <<Shared, Source, nextBuild, lastBuild>>

\* the edge conditions, rag_graph.py lines 87-94
\* a condition that looks at the generated text instead
ResponseHoldsArray(state) == SearchArray(state.response.chars).found

should_format_recipe_list(state) == state.output_type = "recipe_list"

should_format_structured(state) == state.output_type = "structured"

should_return_text(state) == state.output_type = "text"

\* the conditional edges from generate_response, lines 145-153
NextNode(state) ==
    IF should_format_recipe_list(state) THEN "format_recipe_list"
    ELSE IF should_format_structured(state) THEN "format_structured_suggestions"
    ELSE IF should_return_text(state) THEN "END"
    ELSE "END"

\* a node that returns the state it was given
KeepState(state, response) == state

\* {**state, key: value} for the keys the nodes set
WithResponse(state, response) == [state EXCEPT !.response = response]

\* a node that sets recipe_list and empties response
ClearingResponse(state, recipe_list) ==
    [state EXCEPT !.recipe_list = recipe_list, !.response = Str(<<>>)]

WithRecipeList(state, recipe_list) == [state EXCEPT !.recipe_list = recipe_list]

WithSuggestions(state, suggestions) ==
    [state EXCEPT !.structured_suggestions = suggestions]

\* the handler's answer from the final state of the graph (rag_routes.py
\* lines 38, 66, 94)
Reply(t) ==
    [code |-> 200,
     body |-> IF t.endpoint = "/itemrag" THEN [answer |-> t.recipe_list]
              ELSE IF t.endpoint = "/new_item_recipe_suggestions_query"
              THEN [suggestions |-> t.structured_suggestions]
              ELSE [answer |-> t.response]]

\* the RAGState of a request thread (rag_graph.py lines 13-23)
QueryState(t) ==
    [query |-> t.query, user_id |-> t.user_id,
     retrieved_docs |-> t.results, context |-> t.context,
     system_prompt |-> t.system_prompt, prompt_template |-> t.prompt_template,
     response |-> t.response, recipe_list |-> t.recipe_list,
     structured_suggestions |-> t.structured_suggestions,
     output_type |-> t.output_type]

\* the graph has ended (DONE) with final_state and the handler answers
Done(t) ==
    Return([Enter(t, "DONE") EXCEPT !.final = QueryState(t)], Reply(t))

\* generate_response, lines 53-64, then the conditional edge; at END the
\* handler's answer
Generate(w) ==
    LET t == [th[w] EXCEPT !.llm_calls = @ + 1] IN
    /\ t.pc = "p_generate"
    /\ \/ \E content \in contents :
            LET t1 == [WithResponse(t, content) EXCEPT !.generated = content]
            IN  IF NextNode(t1) = "format_recipe_list"
                THEN Step(w, Enter([t1 EXCEPT !.pc = "p_format_list"],
                                   "FORMAT_LIST"))
                ELSE IF NextNode(t1) = "format_structured_suggestions"
                THEN Step(w, Enter([t1 EXCEPT !.pc = "p_format_structured"],
                                   "FORMAT_STRUCTURED"))
                ELSE Step(w, Done(t1))
       \/ /\ FALSE \in Outcomes("TextGenerator")
          /\ Step(w, Raise(t, "GenerationError"))
    /\ UNCHANGED <<Shared, Source, nextBuild, lastBuild>>

\* format_recipe_list, lines 71-74, the edge to END and the handler's answer
FormatList(w) ==
    LET t == th[w]
        r == parse_recipe_list(t.response)
    IN
    /\ t.pc = "p_format_list"
    /\ IF r.raised # "none"
       THEN Step(w, Raise(t, r.raised))
       ELSE Step(w, Done(WithRecipeList(t, r.value)))
    /\ UNCHANGED <<Shared, Source, nextBuild, lastBuild>>

\* format_structured_suggestions, lines 81-84, the edge to END and the
\* handler's answer
FormatStructured(w) ==
    LET t == th[w]
        r == parse_structured_suggestions(t.response)
    IN
    /\ t.pc = "p_format_structured"
    /\ IF r.raised # "none"
       THEN Step(w, Raise(t, r.raised))
       ELSE Step(w, Done(WithSuggestions(t, r.value)))
    /\ UNCHANGED <<Shared, Source, nextBuild, lastBuild>>

\* the response is sent; the thread takes the next request
Finish(w) ==
    /\ th[w].pc = "returned"
    /\ Step(w, IdleThread)
    /\ UNCHANGED <<Shared, Source, nextBuild, lastBuild>>

----------------------------------------------------------------------------
(* The environment *)

\* a thread's "zero source records so far in this call" after a change
StillZero(inv, bil) ==
    [w \in Threads |->
        [th[w] EXCEPT !.zero = @ /\ th[w].pc # "idle"
                                 /\ NoRecords(inv, bil, th[w].user_id)]]

\* the inventories collection changes
ChangeInventories ==
    /\ \E inv \in InventoryStates \ {inventories} :
         /\ inventories' = inv
         /\ everHad' = everHad \cup {u \in Users : ~NoRecords(inv, bills, u)}
         /\ th' = StillZero(inv, bills)
    /\ UNCHANGED <<Shared, bills, nextBuild, lastBuild>>

\* the bills collection changes
ChangeBills ==
    /\ \E bil \in BillStates \ {bills} :
         /\ bills' = bil
         /\ everHad' = everHad \cup {u \in Users : ~NoRecords(inventories, bil, u)}
         /\ th' = StillZero(inventories, bil)
    /\ UNCHANGED <<Shared, inventories, nextBuild, lastBuild>>

\* the process is started again between requests: IndexManager.__init__,
\* lines 15-18, the indices directory kept
Restart ==
    /\ \A w \in Threads : th[w].pc = "idle"
    /\ user_indices # EmptyDict
    /\ user_indices' = EmptyDict
    /\ user_docs' = EmptyDict
    /\ UNCHANGED <<files, Scenario, Calls, Source, th, nextBuild, lastBuild>>

\* the steps of request thread w
ThreadNext(w) ==
    \/ RagRequest(w) \/ RefreshRequest(w)
    \/ CheckCache(w) \/ ReadCachedDocs(w)
    \/ ExistsIndex(w) \/ ExistsDocs(w)
    \/ LoadIndex(w) \/ LoadDocs(w) \/ LoadStoreIndex(w) \/ LoadStoreDocs(w)
    \/ FetchInventory(w) \/ FetchBills(w) \/ Embed(w)
    \/ WriteIndex(w) \/ WriteDocs(w)
    \/ BuildStoreIndex(w) \/ BuildStoreDocs(w)
    \/ RefreshReturn(w) \/ Search(w) \/ Generate(w) \/ Finish(w)

Next ==
    \/ \E w \in Threads :
         \/ RagRequest(w) \/ RefreshRequest(w)
         \/ CheckCache(w) \/ ReadCachedDocs(w)
         \/ ExistsIndex(w) \/ ExistsDocs(w)
         \/ LoadIndex(w) \/ LoadDocs(w) \/ LoadStoreIndex(w) \/ LoadStoreDocs(w)
         \/ FetchInventory(w) \/ FetchBills(w) \/ Embed(w)
         \/ WriteIndex(w) \/ WriteDocs(w)
         \/ BuildStoreIndex(w) \/ BuildStoreDocs(w)
         \/ RefreshReturn(w) \/ Search(w) \/ Generate(w) \/ Finish(w)
    \/ ChangeInventories
    \/ ChangeBills
    \/ Restart

Spec == Init /\ [][Next]_vars

----------------------------------------------------------------------------
(* The service: one thread that takes requests of the four endpoints, with *)
(* and without their fields, and a TextGenerator with several answers      *)

ServiceInit ==
    /\ InitState
    /\ given = NotCalled
    /\ workers = {"w1"}
    /\ clients = {"u1"}
    /\ contents = Responses
    /\ shapes = Shapes
    /\ faults = Failing

ServiceNext ==
    \/ Next
    \/ \E w \in Threads :
         \/ ItemRagRequest(w) \/ StructuredRequest(w)
         \/ FormatList(w) \/ FormatStructured(w)

Service == ServiceInit /\ [][ServiceNext]_vars

----------------------------------------------------------------------------
(* Two threads serving one user while every collaborator answers *)

FaultlessInit ==
    /\ InitState
    /\ given = NotCalled
    /\ workers = Threads
    /\ clients = {"u1"}
    /\ contents = {JsonArrayText}
    /\ shapes = {{"query", "userid"}}
    /\ faults = {}

Faultless == FaultlessInit /\ [][Next]_vars

----------------------------------------------------------------------------
(* Two threads serving two users while every collaborator answers and the  *)
(* collections stay as they are                                            *)

TenantsInit ==
    /\ InitState
    /\ given = NotCalled
    /\ workers = Threads
    /\ clients = Users
    /\ contents = {JsonArrayText}
    /\ shapes = {{"query", "userid"}}
    /\ faults = {}

\* the requests alone: the collections stay as they are
TenantsNext == \E w \in Threads : ThreadNext(w)

Tenants == TenantsInit /\ [][TenantsNext]_vars

----------------------------------------------------------------------------
(* Properties *)

IndexFile(u) == files[_get_index_path(u)]

DocsFile(u) == files[_get_docs_path(u)]

BothArtifacts(u) ==
    _get_index_path(u) \in DOMAIN files /\ _get_docs_path(u) \in DOMAIN files

\* thread w is inside the build section for user u, its first fetch made
Building(w, u) ==
    th[w].pc \in BuildPcs /\ th[w].build # 0 /\ th[w].user_id = u

\* C1: for every user at most one build (fetch, embed, persist, swap) is
\* executing at any moment, whether entered through search or refresh_index.
C1_OneBuildAtATime ==
    \A u \in Users : Cardinality({w \in Threads : Building(w, u)}) <= 1

\* C2: a user is in user_indices exactly when in user_docs, and then the
\* cached index holds one vector per cached document, vector i the embedding
\* of document i.
C2_CacheAligned ==
    \A u \in Users :
       /\ u \in DOMAIN user_indices <=> u \in DOMAIN user_docs
       /\ u \in DOMAIN user_indices /\ u \in DOMAIN user_docs =>
            /\ Len(user_indices[u].vecs) = Len(user_docs[u].list)
            /\ \A i \in 1..Len(user_docs[u].list) :
                 user_indices[u].vecs[i] = EmbedText(user_docs[u].list[i].text)

\* C3: a get_or_create_index call made by search returns an index and a
\* document list of one and the same build, and never fails on a cache entry
\* that is only partly swapped in (the KeyError of line 88).
C3_GetReturnsOneBuild ==
    \A w \in Threads :
       /\ th[w].pc = "g_ret" /\ ~th[w].force_refresh =>
            th[w].index.build = th[w].docs.build
       /\ th[w].exc # "KeyError"

\* C4: whenever both durable artifacts of a user exist, the two were written
\* by the same build.
C4_ArtifactsOfOneBuild ==
    \A u \in Users :
       BothArtifacts(u) => IndexFile(u).build = DocsFile(u).build

\* every thread has returned from a successful refresh_index of user u
RefreshesReturned(u) ==
    \A w \in Threads :
       /\ th[w].pc = "returned" /\ th[w].op = "refresh" /\ th[w].user_id = u
       /\ th[w].reply.body.status = "success"

\* C5: when the concurrent refresh_index calls of a user have all returned
\* (the build that completed last having documents), the cache entry and the
\* durable artifacts hold that one build, with its document count.
C5_RefreshesSettle ==
    \A u \in Users :
       RefreshesReturned(u) /\ lastBuild[u].count > 0 =>
          /\ u \in DOMAIN user_indices /\ u \in DOMAIN user_docs
          /\ BothArtifacts(u)
          /\ user_indices[u].build = lastBuild[u].build
          /\ user_docs[u].build = lastBuild[u].build
          /\ IndexFile(u).build = lastBuild[u].build
          /\ DocsFile(u).build = lastBuild[u].build
          /\ Len(user_docs[u].list) = lastBuild[u].count

\* thread w, running refresh_index, completes its build in this step
RefreshBuildEnds(w) ==
    /\ th[w].op = "refresh"
    /\ th[w].pc \in BuildPcs
    /\ th'[w].pc = "g_ret"

\* the cache entry and, for a build with documents, the durable copy of the
\* user are those of the build thread record t has just run
ReplacedBy(t) ==
    LET u == t.user_id IN
    /\ u \in DOMAIN user_indices /\ u \in DOMAIN user_docs
    /\ user_indices[u].build = t.build
    /\ user_docs[u].build = t.build
    /\ user_docs[u].list = _format_inventory_docs(t.items)
    /\ t.items # <<>> =>
         /\ BothArtifacts(u)
         /\ IndexFile(u).build = t.build
         /\ DocsFile(u).build = t.build

\* C6: when a refresh_index of a user with a cache entry of an earlier build
\* succeeds (the DataSource having answered), the cached
\* and the durable copy have been replaced by a build over the records read in
\* that refresh, inventory first, and document_count is their number, so that
\* a following get is served from the new build and from no earlier one.
C6_RefreshReplaces ==
    /\ [][\A w \in Threads :
            (/\ RefreshBuildEnds(w)
             /\ ~th'[w].dsFailed
             /\ th[w].user_id \in DOMAIN user_indices
             /\ th[w].user_id \in DOMAIN user_docs
             /\ user_indices[th[w].user_id].build < th[w].build)
               => ReplacedBy(th[w])']_vars
    /\ [](\A w \in Threads :
            th[w].pc = "returned" /\ th[w].op = "refresh"
            /\ th[w].reply.body.status = "success"
               => th[w].reply.body.document_count = Len(th[w].items))

GetRaised == {"KeyError", "EmbeddingError", "IndexError"}

\* C7: for a user with zero source records get_or_create_index does not
\* raise and returns no documents, search returns an empty list, and
\* refresh_index returns success with document_count 0.  The zero source
\* records are taken in the sense that leaves staleness aside: a query counts
\* when the user had none all through it and a refresh_index of the user
\* had returned success over none before it came in.
C7_ZeroRecordsEmpty ==
    \A w \in Threads :
       /\ th[w].zero /\ th[w].pc = "returned" /\ th[w].op = "refresh" =>
            /\ th[w].reply.body.status = "success"
            /\ th[w].reply.body.document_count = 0
       /\ th[w].zero /\ th[w].refreshed =>
            /\ th[w].exc \notin GetRaised
            /\ th[w].pc = "g_ret" => th[w].docs.list = <<>>
            /\ th[w].pc = "p_generate" => th[w].results = <<>>

\* What holds of the code: for a user with zero source records refresh_index
\* returns success with document_count 0; for a user that never had a source
\* record (so neither a cache entry nor durable artifacts)
\* get_or_create_index does not raise and returns None and no documents, and
\* search returns an empty list.
NeverHadRecordsEmpty ==
    \A w \in Threads :
       /\ th[w].zero /\ th[w].pc = "returned" /\ th[w].op = "refresh" =>
            /\ th[w].reply.body.status = "success"
            /\ th[w].reply.body.document_count = 0
       /\ th[w].pc # "idle" /\ th[w].user_id \notin everHad =>
            /\ th[w].exc \notin GetRaised
            /\ th[w].pc = "g_ret" =>
                 th[w].index = NoneIndex /\ th[w].docs = NoDocs
            /\ th[w].pc = "p_generate" => th[w].results = <<>>

\* a refresh of a user without records has returned while a query of a user
\* that never had records holds its empty search result
NeverHadRecordsReached ==
    \E w, v \in Threads :
       /\ th[w].pc = "returned" /\ th[w].op = "refresh" /\ th[w].zero
       /\ th[w].reply.body.document_count = 0
       /\ th[v].pc = "p_generate" /\ th[v].user_id \notin everHad
       /\ th[v].results = <<>>

\* C8: when the DataSource or the EmbeddingProvider fails during
\* refresh_index, the result has status 'error' and document_count 0; a
\* failing DataSource never produces 'success'.
C8_RefreshFailureReported ==
    \A w \in Threads :
       th[w].pc = "returned" /\ th[w].op = "refresh"
       /\ (th[w].dsFailed \/ th[w].embFailed) =>
          /\ th[w].reply.body.status = "error"
          /\ th[w].reply.body.document_count = 0

\* C9: when the DataSource or the EmbeddingProvider fails while a query's
\* get_or_create_index builds the index, the query goes on with an empty
\* document list and does not fail.
C9_QueryDegrades ==
    \A w \in Threads :
       th[w].op = "query" /\ (th[w].dsFailed \/ th[w].embFailed) =>
          /\ th[w].pc = "p_generate" => th[w].results = <<>>
          /\ th[w].pc = "returned" =>
               th[w].exc \in {"none", "GenerationError"}

\* C10, the states: a get_or_create_index without force_refresh that took
\* the cache has read neither durable storage nor the DataSource; one that
\* took the durable artifacts has called neither the DataSource nor the
\* EmbeddingProvider; only one that builds calls them.
C10_RouteCalls ==
    \A w \in Threads :
       ~th[w].force_refresh =>
          /\ th[w].route = "cache" => th[w].called = {}
          /\ th[w].route = "disk" => th[w].called \subseteq {"disk"}
          /\ th[w].called \cap {"DataSource", "EmbeddingProvider"} # {} =>
               th[w].route = "build"
          /\ th[w].pc = "g_ret" /\ th[w].route = "disk" =>
               /\ th[w].called = {"disk"}
               /\ th[w].user_id \in DOMAIN user_docs
               /\ th[w].docs.build # 0

\* C10, the steps of thread w: the cache is looked at first and a user in it
\* is answered from it; only a miss looks at the durable artifacts, and when
\* both are there they are loaded, cached and returned; only otherwise does
\* the build start.
C10_RouteStep(w) ==
    LET t == th[w]
        u == t.user_id
    IN  ~t.force_refresh =>
          /\ t.pc = "g_check" /\ th'[w].pc # "g_check" =>
               IF u \in DOMAIN user_indices
               THEN th'[w].route = "cache" /\ th'[w].index = user_indices[u]
               ELSE th'[w].pc = "g_exists_index" /\ th'[w].route = "none"
          /\ t.pc = "g_read_docs" /\ th'[w].pc = "g_ret" =>
               th'[w].docs = user_docs[u]
          /\ t.pc \in {"g_exists_index", "g_exists_docs"}
             /\ th'[w].pc = "b_fetch_inv" => ~BothArtifacts(u)
          /\ t.pc = "g_exists_docs" /\ th'[w].pc # "g_exists_docs" =>
               IF BothArtifacts(u)
               THEN th'[w].route = "disk"
               ELSE th'[w].route = "build"
          /\ t.pc = "l_read_index" /\ th'[w].pc # "l_read_index" =>
               th'[w].index = IndexFile(u)
          /\ t.pc = "l_read_docs" /\ th'[w].pc # "l_read_docs" =>
               th'[w].docs = DocsFile(u)
          /\ t.pc = "l_store_docs" /\ th'[w].pc = "g_ret" =>
               user_docs'[u] = th'[w].docs /\ th'[w].docs = t.docs

\* C10: get resolves a user in a fixed order: the cache, without reading
\* durable storage or calling the DataSource; else both durable artifacts,
\* loaded, cached and returned without calling the DataSource or the
\* EmbeddingProvider; only otherwise a build.
C10_FixedOrder ==
    /\ []C10_RouteCalls
    /\ [][\A w \in Threads : C10_RouteStep(w)]_vars

\* one query has been answered from the cache while another holds what it
\* loaded from the durable artifacts
C10_Witness ==
    \E w, v \in Threads :
       /\ th[w].pc = "g_ret" /\ th[w].route = "cache" /\ ~th[w].force_refresh
       /\ th[w].docs.build # 0
       /\ th[v].pc = "g_ret" /\ th[v].route = "disk"
       /\ th[v].called = {"disk"}

\* C11: a TenantIndex does not expire: a get of a query that came in when
\* the user had an index (empty or not: its build had ended), no build of
\* the user having ended since and no refresh_index being in flight,
\* returns that index, whatever became of the source records.
C11_NeverExpires ==
    [][\A w \in Threads :
         LET t == th[w]
             u == t.user_id
         IN  (/\ t.op = "query" /\ t.pc # "g_ret" /\ th'[w].pc = "g_ret"
              /\ t.had > 0 /\ lastBuild[u].build = t.had
              /\ \A v \in Threads : th[v].op # "refresh")
             => /\ Len(th'[w].docs.list) = lastBuild[u].count
                /\ lastBuild[u].count > 0 =>
                     /\ th'[w].docs.build = lastBuild[u].build
                     /\ th'[w].index.build = lastBuild[u].build]_vars

\* what the cache holds for user u, and what the indices directory does
CacheEntry(u) ==
    <<IF u \in DOMAIN user_indices THEN <<user_indices[u]>> ELSE <<>>,
      IF u \in DOMAIN user_docs THEN <<user_docs[u]>> ELSE <<>> >>

Artifacts(u) ==
    <<IF _get_index_path(u) \in DOMAIN files THEN <<IndexFile(u)>> ELSE <<>>,
      IF _get_docs_path(u) \in DOMAIN files THEN <<DocsFile(u)>> ELSE <<>> >>

\* C12, the frame: a step of a get, search or refresh for one user leaves
\* the cache entry and the durable artifacts of every other user as they
\* were.
C12_Frame ==
    \A w \in Threads :
       th'[w] # th[w] /\ (th[w].pc # "idle" \/ th'[w].pc # "idle") =>
          LET a == IF th[w].pc = "idle" THEN th'[w].user_id ELSE th[w].user_id
          IN  \A b \in Users \ {a} :
                 /\ CacheEntry(b)' = CacheEntry(b)
                 /\ Artifacts(b)' = Artifacts(b)

\* C12, no waiting: a thread in the middle of a request can take its next
\* step whatever the other threads are in the middle of (the bound on the
\* number of builds aside).
C12_NoWaiting ==
    \A w \in Threads :
       /\ th[w].pc # "idle"
       /\ th[w].pc = "b_fetch_inv" => nextBuild <= MaxBuilds
       => ENABLED ThreadNext(w)

\* C12: users are independent: a get, search or refresh for one user leaves
\* the cache entry and the durable artifacts of every other user unchanged
\* and never waits on an operation in flight for another user.
C12_TenantsIndependent ==
    /\ []C12_NoWaiting
    /\ [][C12_Frame]_vars

\* a build for u1 has stored its index and documents beside the cache entry
\* of u2 while a request for u2 is in the middle of reading that entry
C12_Witness ==
    \E w, v \in Threads :
       /\ th[w].user_id = "u1" /\ th[w].pc = "g_ret" /\ th[w].route = "build"
       /\ "u1" \in DOMAIN user_docs /\ "u2" \in DOMAIN user_docs
       /\ BothArtifacts("u1") /\ BothArtifacts("u2")
       /\ th[v].user_id = "u2" /\ th[v].pc = "g_read_docs"

\* the pipeline state thread w entered last
LastEntered(t) == IF t.entered = <<>> THEN "START" ELSE t.entered[Len(t.entered)]

\* C13, one step of thread w: the output mode stays what it was at the
\* start of the pipeline, and the step after GENERATE goes by it alone.
C13_Step(w) ==
    LET t == th[w]
        n == th'[w]
    IN  /\ t.output_type # "none" /\ n.pc # "idle" =>
             n.output_type = t.output_type
        /\ t.pc = "p_generate" /\ n.pc # "p_generate" /\ n.exc = "none" =>
             /\ LastEntered(n) = "FORMAT_LIST" <=> t.output_type = "recipe_list"
             /\ LastEntered(n) = "FORMAT_STRUCTURED" <=> t.output_type = "structured"
             /\ LastEntered(n) = "DONE" <=> t.output_type = "text"
             /\ LastEntered(n) \in {"FORMAT_LIST", "FORMAT_STRUCTURED", "DONE"}

\* C13: the output mode set at the start of the pipeline is the same in every
\* later state of the execution, and it alone selects the step after
\* GENERATE: FORMAT_LIST iff recipe_list, FORMAT_STRUCTURED iff structured,
\* DONE iff text, whatever was retrieved and generated.
C13_ModeSelectsBranch ==
    /\ [](\A w \in Threads :
            th[w].entered # <<>> =>
               /\ th[w].output_type \in {"text", "recipe_list", "structured"}
               /\ th[w].output_type = OutputTypeOf(th[w].endpoint))
    /\ [][\A w \in Threads : C13_Step(w)]_vars

\* a structured request stands in FORMAT_STRUCTURED with a retrieved
\* document and a generated text that holds a plain JSON array
C13_Witness ==
    \E w \in Threads :
       /\ th[w].pc = "p_format_structured"
       /\ th[w].output_type = "structured"
       /\ th[w].results # <<>>
       /\ th[w].response = JsonArrayText

\* the pipeline states an execution in mode output_type goes through
StatesOf(output_type) ==
    IF output_type = "recipe_list"
    THEN <<"RETRIEVE", "GENERATE", "FORMAT_LIST", "DONE">>
    ELSE IF output_type = "structured"
    THEN <<"RETRIEVE", "GENERATE", "FORMAT_STRUCTURED", "DONE">>
    ELSE <<"RETRIEVE", "GENERATE", "DONE">>

\* every call of a collaborator that the execution of t made has returned,
\* the TextGenerator with a string
CallsReturned(t) ==
    /\ ~t.dsFailed /\ ~t.embFailed
    /\ t.exc \notin {"EmbeddingError", "GenerationError"}
    /\ t.generated.type = "str"

\* C14: a pipeline execution enters RETRIEVE, GENERATE, at most one FORMAT
\* state and DONE in this order, none of them twice, and calls the
\* TextGenerator at most once, also when a call fails; when the calls of its
\* collaborators have returned it ends in DONE.
C14_RunsOnceToDone ==
    \A w \in Threads :
       LET t == th[w]
       IN  t.entered # <<>> =>
             /\ Len(t.entered) <= Len(StatesOf(t.output_type))
             /\ t.entered = SubSeq(StatesOf(t.output_type), 1, Len(t.entered))
             /\ t.llm_calls <= 1
             /\ t.llm_calls = 1 => Len(t.entered) >= 2
             /\ t.pc = "returned" /\ CallsReturned(t) =>
                  /\ LastEntered(t) = "DONE"
                  /\ t.llm_calls = 1
                  /\ t.exc = "none"

\* C15: in every mode the response field after GENERATE is the text the
\* TextGenerator returned, and a text-mode request answers with exactly that
\* text.
C15_ResponseVerbatim ==
    \A w \in Threads :
       LET t == th[w]
       IN  /\ t.pc \in {"p_format_list", "p_format_structured"} =>
                t.response = t.generated
           /\ (/\ t.pc = "returned" /\ t.endpoint = "/rag"
               /\ t.entered # <<>> /\ LastEntered(t) = "DONE") =>
                t.reply = [code |-> 200, body |-> [answer |-> t.generated]]

C15_Witness ==
    \E w \in Threads :
       /\ th[w].pc = "returned" /\ th[w].endpoint = "/rag"
       /\ th[w].reply = [code |-> 200, body |-> [answer |-> LinesText]]

\* the line the claim gives for a document
ItemLine(doc) ==
    "Item: " \o doc.item_name \o ", Quantity: " \o ToString(doc.quantity)
    \o ", Price: " \o ToString(doc.price) \o ", Month: " \o doc.month

\* C16 as stated: after RETRIEVE the context is one line per retrieved
\* document in rank order, each line exactly "Item: <name>, Quantity:
\* <quantity>, Price: <price>, Month: <period>", and "No inventory data
\* found." when no document was retrieved.
C16_ContextLines ==
    \A w \in Threads :
       LET t == th[w]
       IN  t.pc = "p_generate" =>
             t.context =
               IF t.results = <<>> THEN "No inventory data found."
               ELSE JoinLines([i \in 1..Len(t.results) |-> ItemLine(t.results[i])])

\* C16 amended: after RETRIEVE the context is one line per retrieved
\* document in rank order, each line being "- " followed by the document's
\* "Item: ..., Quantity: ..., Price: ..., Month: ..." text, the lines joined
\* by a newline, and "No inventory data found." when no document was
\* retrieved.
C16_ContextBulletLines ==
    \A w \in Threads :
       LET t == th[w]
       IN  t.pc = "p_generate" =>
             t.context =
               IF t.results = <<>> THEN "No inventory data found."
               ELSE JoinLines([i \in 1..Len(t.results) |->
                                 "- " \o ItemLine(t.results[i])])

C16_Witness ==
    \E w \in Threads :
       /\ th[w].pc = "p_generate"
       /\ Len(th[w].results) = 2
       /\ th[w].results[1] # th[w].results[2]

\* C17: an item-list or structured-suggestion request with both fields
\* answers every failure raised in the pipeline with status 200 and the error
\* inside the normal shape, {answer: [message]} or {suggestions: [{error:
\* message}]}.
C17_DegradedSuccess ==
    \A w \in Threads :
       LET t == th[w]
       IN  (/\ t.pc = "returned"
            /\ t.endpoint \in {"/itemrag", "/new_item_recipe_suggestions_query"}
            /\ ~Missing(t.data, {"query", "userid"})) =>
             /\ t.reply.code = 200
             /\ t.exc # "none" =>
                  t.reply.body =
                    IF t.endpoint = "/itemrag"
                    THEN [answer |-> <<"Error generating recipes: " \o t.exc>>]
                    ELSE [suggestions |-> <<[error |-> t.exc]>>]
             /\ t.exc = "none" =>
                  DOMAIN t.reply.body =
                    IF t.endpoint = "/itemrag" THEN {"answer"} ELSE {"suggestions"}

\* a formatter has raised on what the TextGenerator returned
C17_Witness ==
    \E w \in Threads :
       /\ th[w].pc = "returned" /\ th[w].endpoint = "/itemrag"
       /\ th[w].exc = "TypeError"
       /\ LastEntered(th[w]) = "FORMAT_LIST"

\* a request has met a failure: an exception ended its call, or a call of
\* the DataSource or the EmbeddingProvider failed inside it
MetFailure(t) == t.exc # "none" \/ t.dsFailed \/ t.embFailed

\* C18: a plain-text answer request or a refresh request that meets a
\* failure, a DataSource or EmbeddingProvider failure of the rebuild
\* included, is answered with a failure status (or at least a body of status
\* "error"), never as a success.
C18_FailuresReported ==
    \A w \in Threads :
       LET t == th[w]
       IN  (/\ t.pc = "returned"
            /\ t.endpoint \in {"/rag", "/refresh"}
            /\ MetFailure(t)) =>
             \/ t.reply.code >= 400
             \/ /\ "status" \in DOMAIN t.reply.body
                /\ t.reply.body.status = "error"

\* the fields an endpoint requires of the request body
Required(endpoint) ==
    IF endpoint = "/refresh" THEN {"userid"} ELSE {"query", "userid"}

\* C19: on each of the four endpoints a request that lacks a required field
\* is answered with a client error in the step that takes it: the pipeline,
\* refresh_index, the IndexStore, the DataSource, the EmbeddingProvider and
\* the TextGenerator are not called and neither the cache nor the files
\* change.
C19_RejectedAtOnce ==
    [][\A w \in Threads :
         LET t == th'[w]
         IN  (/\ th[w].pc = "idle" /\ t.pc # "idle"
              /\ Required(t.endpoint) \ DOMAIN t.data # {}) =>
               /\ t.pc = "returned"
               /\ t.reply.code \in 400..499
               /\ t.invoked = <<>> /\ t.entered = <<>>
               /\ t.called = {} /\ t.llm_calls = 0 /\ t.build = 0
               /\ UNCHANGED <<user_indices, user_docs, files, nextBuild, lastBuild>>]_vars

C19_Witness ==
    \E w \in Threads :
       /\ th[w].pc = "returned" /\ th[w].endpoint = "/refresh"
       /\ DOMAIN th[w].data = {"query"}
       /\ th[w].reply.code = 400

\* the one call a valid request on endpoint delegates to
Delegated(endpoint, data) ==
    IF endpoint = "/refresh"
    THEN [fn |-> "refresh_index", user_id |-> data["userid"]]
    ELSE [fn |-> "invoke_rag", query |-> data["query"],
          user_id |-> data["userid"],
          output_type |-> IF endpoint = "/rag" THEN "text"
                          ELSE IF endpoint = "/itemrag" THEN "recipe_list"
                          ELSE "structured"]

\* C20: a valid request delegates exactly once, with its own query and
\* userid: /rag to the pipeline in mode text, /itemrag in mode recipe_list,
\* the structured endpoint in mode structured, /refresh to refresh_index; the
\* answer is status 200 with the delegate's result as it is (response,
\* recipe_list, structured_suggestions, the result of refresh_index).
C20_OneDelegateCall ==
    \A w \in Threads :
       LET t == th[w]
       IN  (t.pc # "idle" /\ Required(t.endpoint) \subseteq DOMAIN t.data) =>
             /\ t.invoked = <<Delegated(t.endpoint, t.data)>>
             /\ (t.pc = "returned" /\ t.endpoint = "/refresh") =>
                  /\ t.reply.code = 200
                  /\ DOMAIN t.reply.body = {"status", "message", "document_count"}
                  /\ t.reply.body.status = IF t.exc = "none" THEN "success" ELSE "error"
             /\ (t.pc = "returned" /\ t.endpoint # "/refresh" /\ t.exc = "none") =>
                  /\ t.reply.code = 200
                  /\ t.reply.body =
                       IF t.endpoint = "/rag" THEN [answer |-> t.generated]
                       ELSE IF t.endpoint = "/itemrag"
                       THEN [answer |-> parse_recipe_list(t.generated).value]
                       ELSE [suggestions |->
                               parse_structured_suggestions(t.generated).value]

C20_Witness ==
    \E w \in Threads :
       /\ th[w].pc = "returned"
       /\ th[w].endpoint = "/new_item_recipe_suggestions_query"
       /\ th[w].exc = "none"
       /\ th[w].generated = JsonObjectsText
       /\ th[w].reply.code = 200
       /\ th[w].reply.body.suggestions.items # <<>>
       /\ th[w].invoked[1].output_type = "structured"

----------------------------------------------------------------------------
(* The parsers of LLMClient called on their own, on every text of a few    *)
(* pieces                                                                  *)

MaxTokens == 4

\* {"n":"A"}
ObjectText == <<"{", "\"", "n", "\"", ":", "\"", "A", "\"", "}">>

\* the pieces the texts are made of
Tokens ==
    << <<"[">>, <<"]">>, <<"\"", "A", "\"">>, <<"1">>, <<",">>, <<"\n">>,
       <<"-", " ">>, <<"1", ".", " ">>, <<"*", " ">>, <<"x">>, <<" ">>,
       ObjectText, <<"{">> \o SuggestionsKey \o <<":">>, <<"}">>, <<"{">>,
       <<"[">> \o ObjectText \o <<"]">> >>

RECURSIVE Flatten(_)
Flatten(seqs) == IF seqs = <<>> THEN <<>> ELSE Head(seqs) \o Flatten(Tail(seqs))

Texts ==
    {Flatten([n \in DOMAIN ts |-> Tokens[ts[n]]]) :
        ts \in UNION {[1..n -> 1..Len(Tokens)] : n \in 0..MaxTokens}}

ParsersInit ==
    /\ InitState
    /\ inventories = <<tea>>
    /\ bills = <<>>
    /\ workers = {}
    /\ clients = {}
    /\ contents = {}
    /\ shapes = {}
    /\ faults = {}
    /\ given \in {[fn |-> "parse", response |-> Str(t)] : t \in Texts}

\* llm_client.parse_recipe_list(response)
ParseList ==
    /\ given.fn = "parse"
    /\ outcome = NotCalled
    /\ outcome' = [fn |-> "parse_recipe_list",
                   end |-> parse_recipe_list(given.response)]
    /\ UNCHANGED <<user_indices, user_docs, files, Scenario, Source, th,
                   nextBuild, lastBuild, given>>

\* llm_client.parse_structured_suggestions(response)
ParseStructured ==
    /\ given.fn = "parse"
    /\ outcome = NotCalled
    /\ outcome' = [fn |-> "parse_structured_suggestions",
                   end |-> parse_structured_suggestions(given.response)]
    /\ UNCHANGED <<user_indices, user_docs, files, Scenario, Source, th,
                   nextBuild, lastBuild, given>>

ParsersNext == ParseList \/ ParseStructured

Parsers == ParsersInit /\ [][ParsersNext]_vars

\* C21: on every text parse_recipe_list returns, raising nothing, a list
\* whose elements are all strings.
C21_ListOfStrings ==
    outcome.fn = "parse_recipe_list" =>
       /\ outcome.end.raised = "none"
       /\ outcome.end.value.t = "list"
       /\ \A n \in 1..Len(outcome.end.value.items) :
             outcome.end.value.items[n].t = "str"

\* the JSON array literals inside s, decoded
ArrayLiterals(s) ==
    {JsonLoads(SubSeq(s, i, j)).v :
        <<i, j>> \in {<<a, b>> \in Positions(s, "[") \X Positions(s, "]") :
                         a < b /\ JsonLoads(SubSeq(s, a, b)).ok}}

\* a line without its surrounding whitespace and without one leading
\* numbering ("1.") or bullet ("-", "*")
RefClean(line) ==
    LET t == Strip(line)
        e == DigitsEnd(t, 1)
    IN  IF t = <<>> THEN <<>>
        ELSE IF e > 1 /\ e <= Len(t) /\ t[e] = "." THEN Strip(SubSeq(t, e + 1, Len(t)))
        ELSE IF t[1] \in {"-", "*"} THEN Strip(Tail(t))
        ELSE t

\* the cleaned lines of s that are not blank, in their order
RefLines(s) ==
    LET lines == Split(s, "\n")
        kept  == SelectSeq([n \in 1..Len(lines) |-> RefClean(lines[n])],
                           LAMBDA l : l # <<>>)
    IN  PyList([n \in 1..Len(kept) |-> PyStr(kept[n])])

\* C22: parse_recipe_list agrees with the reference: on a text that holds a
\* JSON array literal anywhere the result is that array decoded, on every
\* other text the cleaned non-blank lines in their order.
C22_AgreesWithReference ==
    outcome.fn = "parse_recipe_list" =>
       LET s == given.response.chars
       IN  /\ outcome.end.raised = "none"
           /\ IF ArrayLiterals(s) # {}
              THEN outcome.end.value \in ArrayLiterals(s)
              ELSE outcome.end.value = RefLines(s)

\* without an array literal in the text the result is the reference's lines
C22_LinesAgree ==
    (outcome.fn = "parse_recipe_list" /\ ArrayLiterals(given.response.chars) = {}) =>
       outcome.end.value = RefLines(given.response.chars)

\* the well-formed JSON arrays of objects inside s, and the "suggestions"
\* arrays of the JSON objects inside s, decoded
RecordArrays(s) ==
    {v \in ArrayLiterals(s) :
        v.items # <<>> /\ \A n \in 1..Len(v.items) : v.items[n].t = "dict"}
    \cup
    {JsonLoads(SubSeq(s, i, j)).v.vals[1] :
        <<i, j>> \in {<<a, b>> \in Positions(s, "{") \X Positions(s, "}") :
                         /\ a < b
                         /\ JsonLoads(SubSeq(s, a, b)).ok
                         /\ JsonLoads(SubSeq(s, a, b)).v.keys # <<>>
                         /\ JsonLoads(SubSeq(s, a, b)).v.keys[1]
                              = SubSeq(SuggestionsKey, 2, 12)
                         /\ JsonLoads(SubSeq(s, a, b)).v.vals[1].t = "list"}}

\* one record whose only field is the error marker
IsErrorRecord(v) ==
    /\ v.t = "list" /\ Len(v.items) = 1
    /\ v.items[1].t = "dict" /\ v.items[1].keys = <<<<"error">>>>

\* C23: on every text parse_structured_suggestions returns without raising:
\* the records verbatim when the text holds a well-formed JSON array of
\* objects or a JSON object with a "suggestions" array, exactly one record
\* with the error marker on every other text.
C23_RecordsOrOneError ==
    outcome.fn = "parse_structured_suggestions" =>
       LET s == given.response.chars
       IN  /\ outcome.end.raised = "none"
           /\ IF RecordArrays(s) # {}
              THEN outcome.end.value \in RecordArrays(s)
              ELSE IsErrorRecord(outcome.end.value)

\* on a text that holds neither, the result is one error record
C23_ErrorOtherwise ==
    (/\ outcome.fn = "parse_structured_suggestions"
     /\ RecordArrays(given.response.chars) = {}) =>
       IsErrorRecord(outcome.end.value)

----------------------------------------------------------------------------
(* IndexManager.search called on its own, on the index of every short      *)
(* document list and with every small k                                    *)

MaxDocs == 3

MaxK == 4

SearchQueries == {"what can I cook", "rice", "tea please"}

\* the document lists a build makes of up to MaxDocs records
DocLists ==
    {_format_inventory_docs(items) :
        items \in UNION {[1..n -> {rice, sugar, tea, bill}] : n \in 0..MaxDocs}}

\* what get_or_create_index returns for a user whose build made list:
\* lines 118-123 for no documents, lines 126-146 else
IndexData(list) ==
    IF list = <<>> THEN [index |-> NoneIndex, docs |-> NoDocs]
    ELSE [index |-> [build |-> 1,
                     vecs |-> Encode([i \in 1..Len(list) |-> list[i].text])],
          docs  |-> [build |-> 1, list |-> list]]

\* index.search(query_embedding, k) of faiss for any k: k labels for k > 0;
\* for k = 0 no label or, where the wrapper asserts k > 0, AssertionError;
\* for k < 0 that AssertionError or numpy's ValueError for the negative
\* dimension of the result arrays
IndexSearchEnds(index, q, k) ==
    IF k > 0 THEN {Returned(IndexSearch(index, q, k))}
    ELSE IF k = 0 THEN {Returned(<<>>), Raised("AssertionError")}
    ELSE {Raised("AssertionError"), Raised("ValueError")}

\* search, lines 162-176, on the value get_or_create_index returned
SearchEnds(index_data, query, k) ==
    LET index == index_data.index
        docs  == index_data.docs.list
    IN  IF index = NoneIndex \/ docs = <<>> THEN {Returned(<<>>)}
        ELSE {IF hits.raised # "none" THEN hits
              ELSE IF \E r \in 1..Len(hits.value) : hits.value[r] > Len(docs)
              THEN Raised("IndexError")
              ELSE Returned(Picked(docs, hits.value)) :
                 hits \in IndexSearchEnds(index, EmbedText(query),
                                          Min(k, Len(docs)))}

SearchesInit ==
    /\ InitState
    /\ inventories = <<tea>>
    /\ bills = <<>>
    /\ workers = {}
    /\ clients = {}
    /\ contents = {}
    /\ shapes = {}
    /\ faults = {}
    /\ given \in {[fn |-> "search", index_data |-> IndexData(list),
                   query |-> q, k |-> k] :
                     list \in DocLists, q \in SearchQueries,
                     k \in (-1..MaxK) \cup {TopK}}

\* index_manager.search(user_id, query, k)
SearchCall ==
    /\ given.fn = "search"
    /\ outcome = NotCalled
    /\ \E end \in SearchEnds(given.index_data, given.query, given.k) :
          outcome' = [fn |-> "search", end |-> end]
    /\ UNCHANGED <<user_indices, user_docs, files, Scenario, Source, th,
                   nextBuild, lastBuild, given>>

Searches == SearchesInit /\ [][SearchCall]_vars

\* the documents found are those at the positions at of the list, which go
\* by non-decreasing distance to the query and, among equals, by position
RankedAt(found, at, index_data, query) ==
    LET vecs == index_data.index.vecs
        q    == EmbedText(query)
    IN  /\ Len(at) = Len(found)
        /\ \A r \in 1..Len(at) : found[r] = index_data.docs.list[at[r]]
        /\ \A r \in 1..(Len(at) - 1) :
              \/ Dist2(vecs[at[r]], q) < Dist2(vecs[at[r + 1]], q)
              \/ /\ Dist2(vecs[at[r]], q) = Dist2(vecs[at[r + 1]], q)
                 /\ at[r] < at[r + 1]

\* C24: for every k and every index of n documents search returns min(k, n)
\* documents, none when k <= 0 or n = 0, by non-decreasing distance to the
\* query and among equal distances by position in the index.
C24_SearchReturnsRanked ==
    outcome.fn = "search" =>
       LET n == Len(given.index_data.docs.list)
           m == IF given.k <= 0 \/ n = 0 THEN 0 ELSE Min(given.k, n)
       IN  /\ outcome.end.raised = "none"
           /\ Len(outcome.end.value) = m
           /\ \E at \in [1..m -> 1..n] :
                 RankedAt(outcome.end.value, at, given.index_data, given.query)

\* the same for the k the code can pass on to the index, k >= 1
C24_RankedForPositiveK ==
    (outcome.fn = "search" /\ given.k >= 1) =>
       LET n == Len(given.index_data.docs.list)
           m == Min(given.k, n)
       IN  /\ outcome.end.raised = "none"
           /\ Len(outcome.end.value) = m
           /\ \E at \in [1..m -> 1..n] :
                 RankedAt(outcome.end.value, at, given.index_data, given.query)

\* thread w ends a build over an empty raw record set
EmptyBuildEnds(w) ==
    /\ th[w].pc \in BuildPcs
    /\ th'[w].pc = "g_ret"
    /\ th'[w].items = <<>>

\* C25: a build over an empty raw record set calls no EmbeddingProvider and
\* stores an empty index for the user: when it ends the user has a cache
\* entry with zero documents (which a later get returns without a fetch).
C25_EmptyBuildStored ==
    [][\A w \in Threads :
         EmptyBuildEnds(w) =>
            LET u == th[w].user_id
            IN  /\ "EmbeddingProvider" \notin th'[w].called
                /\ u \in DOMAIN user_indices' /\ u \in DOMAIN user_docs'
                /\ user_docs'[u].list = <<>>]_vars

\* the half of it that holds: no EmbeddingProvider call
C25_NoEmbedding ==
    [][\A w \in Threads :
         EmptyBuildEnds(w) => "EmbeddingProvider" \notin th'[w].called]_vars

----------------------------------------------------------------------------
(* Two threads serving one user on the four endpoints while every          *)
(* collaborator answers and the collections stay as they are               *)

PipelinesInit ==
    /\ InitState
    /\ given = NotCalled
    /\ inventories = <<rice, tea, sugar>>
    /\ bills = <<>>
    /\ workers = Threads
    /\ clients = {"u1"}
    /\ contents = {JsonArrayText, LinesText}
    /\ shapes = {{"query", "userid"}}
    /\ faults = {}

PipelinesNext ==
    \E w \in Threads :
       \/ ThreadNext(w)
       \/ ItemRagRequest(w) \/ StructuredRequest(w)
       \/ FormatList(w) \/ FormatStructured(w)

Pipelines == PipelinesInit /\ [][PipelinesNext]_vars

\* thread w is inside the pipeline state name
InState(w, name) == th[w].entered # <<>> /\ LastEntered(th[w]) = name

\* thread w takes a step inside a pipeline state without raising
PipelineStep(w) ==
    /\ th[w].op = "query" /\ th[w].entered # <<>>
    /\ th[w].pc # "returned"
    /\ th'[w] # th[w]
    /\ th'[w].exc = "none"

\* the QueryState after the step: the final state when the graph has ended
StateAfter(w) ==
    IF th'[w].pc = "returned" THEN th'[w].final ELSE QueryState(th'[w])

\* the fields a pipeline state may set
Outputs(name) ==
    IF name = "RETRIEVE" THEN {"retrieved_docs", "context"}
    ELSE IF name = "GENERATE" THEN {"response"}
    ELSE IF name = "FORMAT_LIST" THEN {"recipe_list"}
    ELSE IF name = "FORMAT_STRUCTURED" THEN {"structured_suggestions"}
    ELSE {}

\* a step of a pipeline state leaves every field of the QueryState but the
\* state's own outputs as it was, and with it every other thread's state
QueryStateFrame(w) ==
    PipelineStep(w) =>
       /\ \A f \in DOMAIN QueryState(th[w]) \ Outputs(LastEntered(th[w])) :
             StateAfter(w)[f] = QueryState(th[w])[f]
       /\ \A v \in Threads \ {w} : th'[v] = th[v]

\* C26 as stated: each pipeline state changes only its own outputs of the
\* QueryState and nothing outside it: neither the cache of the IndexManager
\* nor the files nor the state of another execution.
C26_NothingOutside ==
    [][\A w \in Threads :
         /\ QueryStateFrame(w)
         /\ PipelineStep(w) =>
               UNCHANGED <<user_indices, user_docs, files>>]_vars

\* C26 amended: each pipeline state changes only its own outputs of the
\* QueryState and no other execution's state; GENERATE and the FORMAT states
\* change nothing outside the QueryState, and RETRIEVE changes outside it
\* only the cache entry and the files of the request's own user (when the
\* get_or_create_index inside it loads or builds the index).
C26_OwnOutputsOwnUser ==
    [][\A w \in Threads :
         /\ QueryStateFrame(w)
         /\ PipelineStep(w) =>
               /\ ~InState(w, "RETRIEVE") =>
                     UNCHANGED <<user_indices, user_docs, files>>
               /\ \A u \in Users \ {th[w].user_id} :
                     /\ CacheEntry(u)' = CacheEntry(u)
                     /\ Artifacts(u)' = Artifacts(u)]_vars

\* a list request has ended after FORMAT_LIST with the generated text still
\* in response, another request being under way
C26_Witness ==
    \E w, v \in Threads :
       /\ th[w].pc = "returned" /\ th[w].endpoint = "/itemrag"
       /\ th[w].final.output_type = "recipe_list"
       /\ th[w].final.response = LinesText
       /\ Len(th[w].final.recipe_list.items) = 2
       /\ Len(th[w].final.retrieved_docs) = 2
       /\ th[v].pc = "p_generate"

\* the positions of get_or_create_index before lines 140-141
BeforeStore ==
    {"g_check", "b_fetch_inv", "b_fetch_bills", "b_embed", "b_write_index",
     "b_write_docs"}

\* C27: a refresh_index that ends with status 'error' leaves the user's
\* cache entry as it was before the call: it ends so only from a position
\* before the stores of lines 140-141, which it has reached through such
\* positions only, and none of its steps there changes user_indices or
\* user_docs.
C27_ErrorLeavesCache ==
    [][\A w \in Threads :
         /\ (/\ th[w].op = "refresh" /\ th[w].pc # "returned"
             /\ th'[w].pc = "returned"
             /\ th'[w].reply.body.status = "error") =>
               th[w].pc \in BeforeStore
         /\ (th'[w].op = "refresh" /\ th'[w].pc \in BeforeStore) =>
               th[w].pc \in BeforeStore \cup {"idle"}
         /\ (/\ th[w].op = "refresh" /\ th[w].pc \in BeforeStore
             /\ th'[w] # th[w]) =>
               /\ user_indices' = user_indices
               /\ user_docs' = user_docs]_vars

\* a refresh of a user with a cached build has ended with status 'error'
C27_Witness ==
    \E w \in Threads :
       /\ th[w].pc = "returned" /\ th[w].op = "refresh"
       /\ th[w].reply.code = 200
       /\ th[w].reply.body.status = "error"
       /\ th[w].user_id \in DOMAIN user_indices
       /\ th[w].user_id \in DOMAIN user_docs
       /\ user_docs[th[w].user_id].list # <<>>

====
